---- MODULE Spec2Model ----
(***************************************************************************)
(* StudyBuddy: the view-state controller (App.tsx and its PDF variant) and *)
(* the response handling of services/geminiService.ts.                     *)
(*                                                                         *)
(* Text is modelled as token sequences: a response text is a sequence of   *)
(* lines, a line is a sequence of tokens, a verdict or error message is a  *)
(* sequence of characters or words.  Conversions (toLowerCase, startsWith, *)
(* includes, the json fence regex, JSON.parse, the numbered-line regex) *)
(* are operators over these sequences.                                     *)
(***************************************************************************)
EXTENDS Integers, Sequences, FiniteSets, Bags, TLC

\* ------------------------------------------------------------------ bounds
\* longest response text, in lines, given to the two JSON-or-regex parsers
MaxLines == 3

\* ------------------------------------------------------- text primitives
Digits == {"1", "2"}
Space == " "
\* the token for three backticks followed by json, and for three backticks
FenceOpen == "[fence]json"
FenceClose == "[fence]"
StrLits == {"'questions'", "'flashcards'", "'Q1'", "'Q2'", "''"}
Falsy == {"null", "false", "''"}
Scalars == StrLits \cup {"null", "true", "false"}

RECURSIVE Flatten(_)
\* the lines of a text joined by newlines; a newline is JSON whitespace
Flatten(lines) ==
    IF lines = <<>> THEN <<>>
    ELSE IF Len(lines) = 1 THEN lines[1]
    ELSE lines[1] \o <<Space>> \o Flatten(Tail(lines))

RECURSIVE SkipWs(_, _)
SkipWs(t, i) == IF i <= Len(t) /\ t[i] = Space THEN SkipWs(t, i + 1) ELSE i

RECURSIVE DigitRunEnd(_, _)
\* index just after the run of digits that starts at i
DigitRunEnd(t, i) == IF i <= Len(t) /\ t[i] \in Digits THEN DigitRunEnd(t, i + 1) ELSE i

\* ------------------------------------------------------------- JSON.parse
\* ParseValue(t, i): index just after the JSON value that starts at i
\* (leading whitespace skipped), or 0 when no value starts there.
RECURSIVE ParseValue(_, _), ParseElems(_, _), ParseMembers(_, _)
ParseValue(t, i0) ==
    LET i == SkipWs(t, i0) IN
    IF i > Len(t) THEN 0
    ELSE IF t[i] \in Scalars THEN i + 1
    ELSE IF t[i] \in Digits THEN DigitRunEnd(t, i)
    ELSE IF t[i] = "[" THEN
        LET k == SkipWs(t, i + 1) IN
        IF k <= Len(t) /\ t[k] = "]" THEN k + 1 ELSE ParseElems(t, i + 1)
    ELSE IF t[i] = "{" THEN
        LET k == SkipWs(t, i + 1) IN
        IF k <= Len(t) /\ t[k] = "}" THEN k + 1 ELSE ParseMembers(t, i + 1)
    ELSE 0

ParseElems(t, i) ==
    LET j == ParseValue(t, i) IN
    IF j = 0 THEN 0
    ELSE LET k == SkipWs(t, j) IN
         IF k > Len(t) THEN 0
         ELSE IF t[k] = "]" THEN k + 1
         ELSE IF t[k] = "," THEN ParseElems(t, k + 1)
         ELSE 0

ParseMembers(t, i0) ==
    LET i == SkipWs(t, i0) IN
    IF i > Len(t) \/ t[i] \notin StrLits THEN 0
    ELSE LET c == SkipWs(t, i + 1) IN
         IF c > Len(t) \/ t[c] # ":" THEN 0
         ELSE LET j == ParseValue(t, c + 1) IN
              IF j = 0 THEN 0
              ELSE LET k == SkipWs(t, j) IN
                   IF k > Len(t) THEN 0
                   ELSE IF t[k] = "}" THEN k + 1
                   ELSE IF t[k] = "," THEN ParseMembers(t, k + 1)
                   ELSE 0

\* JSON.parse succeeds: exactly one value, then only whitespace
JsonParses(t) ==
    LET j == ParseValue(t, 1) IN j # 0 /\ SkipWs(t, j) > Len(t)

\* the parsed value, trimmed of surrounding whitespace
JsonValue(t) ==
    LET i == SkipWs(t, 1) IN SubSeq(t, i, ParseValue(t, 1) - 1)

RECURSIVE MemberValue(_, _, _, _)
\* v is an object's tokens, i the index of a member's key: the value of the
\* last member named key (JSON.parse keeps the last duplicate), or found
MemberValue(v, i0, key, found) ==
    LET i == SkipWs(v, i0) IN
    IF i > Len(v) \/ v[i] = "}" THEN found
    ELSE LET c == SkipWs(v, i + 1)
             s == SkipWs(v, c + 1)
             j == ParseValue(v, c + 1)
             k == SkipWs(v, j)
             here == IF v[i] = key THEN SubSeq(v, s, j - 1) ELSE found
         IN IF v[k] = "," THEN MemberValue(v, k + 1, key, here) ELSE here

Undefined == <<"undefined">>

\* json[key] for a parsed value v that is not null
Property(v, key) ==
    IF v[1] = "{" THEN MemberValue(v, 2, key, Undefined) ELSE Undefined

RECURSIVE ElemsOf(_, _)
\* the elements of an array's tokens, from index i
ElemsOf(v, i0) ==
    LET i == SkipWs(v, i0) IN
    IF i > Len(v) \/ v[i] = "]" THEN <<>>
    ELSE LET j == ParseValue(v, i)
             k == SkipWs(v, j)
         IN <<SubSeq(v, i, j - 1)>> \o
            (IF v[k] = "," THEN ElemsOf(v, k + 1) ELSE <<>>)

\* a JavaScript value handed back by a parser: an array of items, or some
\* other value kept as its tokens
ArrayOf(items) == [isArray |-> TRUE, items |-> items]
OtherValue(v) == [isArray |-> FALSE, items |-> <<v>>]
AsResult(v) == IF v[1] = "[" THEN ArrayOf(ElemsOf(v, 2)) ELSE OtherValue(v)

\* x || [] for a property value x
OrEmptyList(v) ==
    IF v = Undefined \/ (Len(v) = 1 /\ v[1] \in Falsy) THEN ArrayOf(<<>>)
    ELSE AsResult(v)

\* ------------------------------------------- the json fence regex
EndsWithFenceOpen(line) == Len(line) > 0 /\ line[Len(line)] = FenceOpen
StartsWithFence(line) == Len(line) > 0 /\ line[1] \in {FenceOpen, FenceClose}

\* response.text.match(/[fence]json\n([\s\S]*?)\n[fence]/): <<i, j>> with the
\* leftmost opening line i and the nearest closing line j, or <<0, 0>>
FenceMatch(lines) ==
    LET opens == {i \in 1..Len(lines) :
                    /\ EndsWithFenceOpen(lines[i])
                    /\ \E j \in (i + 2)..Len(lines) : StartsWithFence(lines[j])}
    IN IF opens = {} THEN <<0, 0>>
       ELSE LET i == CHOOSE x \in opens : \A y \in opens : x <= y
                j == CHOOSE x \in (i + 2)..Len(lines) :
                        /\ StartsWithFence(lines[x])
                        /\ \A y \in (i + 2)..(x - 1) : ~StartsWithFence(lines[y])
            IN <<i, j>>

\* match(...)?.[1] || response.text, as JSON input tokens
JsonText(lines) ==
    LET m == FenceMatch(lines)
        group == SubSeq(lines, m[1] + 1, m[2] - 1)
    IN IF m = <<0, 0>> \/ group = <<<<>>>> THEN Flatten(lines)
       ELSE Flatten(group)

\* /^\d+\.\s/.test(line)
NumberedLine(line) ==
    LET e == DigitRunEnd(line, 1) IN
    /\ e > 1
    /\ e + 1 <= Len(line)
    /\ line[e] = "."
    /\ line[e + 1] = Space

\* ------------------------------------------- geminiService: the parsers
\* the catch branch of generateQuizQuestions
QuizFallbackAlt(lines) == ArrayOf(<<>>)
QuizFallback(lines) == ArrayOf(SelectSeq(lines, NumberedLine))

\* the try body shared by both parsers: the value of json[key] || [], or
\* "threw" when JSON.parse or the property access throws
TryParse(lines, key) ==
    LET t == JsonText(lines) IN
    IF ~JsonParses(t) THEN [threw |-> TRUE, value |-> ArrayOf(<<>>)]
    ELSE IF JsonValue(t) = <<"null">> THEN [threw |-> TRUE, value |-> ArrayOf(<<>>)]
    ELSE [threw |-> FALSE, value |-> OrEmptyList(Property(JsonValue(t), key))]

generateQuizQuestions(lines) ==
    LET r == TryParse(lines, "'questions'") IN
    IF r.threw THEN QuizFallback(lines) ELSE r.value

generateFlashcards(lines) ==
    LET r == TryParse(lines, "'flashcards'") IN
    IF r.threw THEN ArrayOf(<<>>) ELSE r.value

\* ---------------------------------------------- bounded response texts
LinePool ==
    { <<>>,
      <<FenceOpen>>,
      <<FenceClose>>,
      <<"Sure", ":", FenceOpen>>,
      <<"{", "'questions'", ":", "[", "'Q1'", ",", "'Q2'", "]", "}">>,
      <<"{", "'flashcards'", ":", "[", "'Q1'", "]", "}">>,
      <<"{", "'questions'", ":", "[", "'Q1'">>,
      <<"]", "}">>,
      <<"{", "'questions'", ":", "null", ",", "'questions'", ":", "'Q2'", ",",
        "'flashcards'", ":", "false", "}">>,
      <<"{", "'questions'", ":", "''", ",", "'flashcards'", ":", "'Q1'", "}">>,
      <<"null">>,
      <<"1", ".", Space, "What">>,
      <<"1", "2", ".", Space, "Why">>,
      <<"2", ".", "How">>,
      <<Space, "1", ".", Space, "Who">> }

RECURSIVE TextsOfLen(_)
TextsOfLen(n) ==
    IF n = 0 THEN {<<>>}
    ELSE {t \o <<l>> : t \in TextsOfLen(n - 1), l \in LinePool}

Texts == UNION {TextsOfLen(n) : n \in 1..MaxLines}

\* ------------------------------------------------- bounded app inputs
\* most requests awaiting their response at once
MaxInFlight == 2
\* most messages kept in a chat history
MaxChat == 2
\* most messages kept in the history of a PDF chat
MaxPdfChat == 3

\* ------------------------------------------------------ string primitives
\* String.prototype.toLowerCase, per character
LowerChar(c) ==
    CASE c = "C" -> "c" [] c = "O" -> "o" [] c = "R" -> "r" [] c = "E" -> "e"
      [] c = "T" -> "t" [] c = "Y" -> "y" [] c = "S" -> "s" [] c = "N" -> "n"
      [] c = "I" -> "i" [] OTHER -> c
toLowerCase(s) == [i \in 1..Len(s) |-> LowerChar(s[i])]
startsWith(s, p) == Len(s) >= Len(p) /\ SubSeq(s, 1, Len(p)) = p
\* String.prototype.includes for a one-word needle in a sequence of words,
\* and for a run of characters in a sequence of characters
includes(s, p) ==
    \E i \in 1..(Len(s) - Len(p) + 1) : SubSeq(s, i, i + Len(p) - 1) = p

RECURSIVE TrimStart(_)
TrimStart(s) == IF s # <<>> /\ s[1] = Space THEN TrimStart(Tail(s)) ELSE s
RECURSIVE TrimEnd(_)
TrimEnd(s) ==
    IF s # <<>> /\ s[Len(s)] = Space THEN TrimEnd(SubSeq(s, 1, Len(s) - 1)) ELSE s
\* String.prototype.trim
trim(s) == TrimEnd(TrimStart(s))

\* ------------------------------------------------------------ AppState
AppStates ==
    {"HOME", "MENU", "STUDY_PLAN", "QUESTION_PAPER", "QUIZ_SYLLABUS",
     "GRAMMAR_OPTIONS", "QUIZ", "QUIZ_RESULTS", "SUMMARY", "ANSWERS",
     "FLASHCARDS", "AI_TUTOR", "PDF_CHAT", "PDF_FINDER"}

\* ------------------------------------------------------ error messages
QuotaAdvisory == "API quota exceeded. Please check your plan and billing details."
GenericError == "An unexpected error occurred. Please try again."
NotFoundError == "Could not find a textbook named ... Please check the name and try again."
NoQuizError == "Sorry, I couldn't generate a quiz for that topic. Try being more specific."
InvalidPdfError == "Please upload a valid PDF file."
NoError == "null"

\* what the backend throws, as words
ResourceExhausted == <<"429", "RESOURCE_EXHAUSTED", "quota">>
NetworkFailure == <<"fetch", "failed">>
BackendErrors == {ResourceExhausted, NetworkFailure}
\* the message of a QuotaExceededError
QuotaExceededError ==
    <<"API", "quota", "exceeded.", "Please", "check", "your", "plan", "and",
      "billing", "details.">>
PdfParseError == <<"Failed", "to", "parse", "the", "PDF", "file.">>

isQuotaError(errorMessage) == includes(errorMessage, <<"RESOURCE_EXHAUSTED">>)

\* the catch block of the generateContent wrapper: what the caller sees
generateContentThrows(error) ==
    IF isQuotaError(error) THEN QuotaExceededError ELSE error

\* a handleError that sets no banner
handleErrorSilent(err) == NoError
\* the banner handleError sets
handleErrorMessage(err) ==
    IF isQuotaError(err) THEN QuotaAdvisory ELSE GenericError

VARIABLES
    respText, quizOut, flashOut,
    pdfVariant,
    appState, previousAppState, textbookName, isLanguageBook,
    isLoading, error, generatedContent, syllabus,
    quizQuestions, currentQuestionIndex, userAnswers, quizScore,
    isSubmittingAnswer, incorrectAnswers, showEvaluationResult,
    showIncorrectList,
    flashcards, flashcardTopic, summaryTopic,
    questionsToAnswer, incorrectQuestionsList, showIncorrectQuestions,
    studyPlanGoal, studyPlanSyllabus, studyPlanTimeframe,
    chat, chatHistory, userChatInput, isTutorLoading,
    pdfFile, pdfText, isParsingPdf, pdfChatHistory, userPdfChatInput,
    isPdfChatLoading, pdfChat, pdfLinks, hasSearchedForPdf,
    pending,        \* the awaits in progress, each with what its closure captured
    last,           \* the handler or continuation that ran last, and what it got
    contentStale,   \* generatedContent came from a request of an earlier visit
    evalsDone       \* evaluations completed without error since the quiz was set

pvars == <<respText, quizOut, flashOut>>
navVars == <<appState, previousAppState>>
homeVars == <<textbookName, isLanguageBook>>
busyVars == <<isLoading, isSubmittingAnswer, isTutorLoading, isPdfChatLoading, isParsingPdf>>
quizVars == <<quizQuestions, currentQuestionIndex, userAnswers, quizScore,
              incorrectAnswers, showEvaluationResult, showIncorrectList, evalsDone>>
inputVars == <<syllabus, flashcardTopic, summaryTopic, questionsToAnswer,
               studyPlanGoal, studyPlanSyllabus, studyPlanTimeframe>>
contentVars == <<generatedContent, contentStale>>
answersVars == <<incorrectQuestionsList, showIncorrectQuestions>>
tutorVars == <<chat, chatHistory, userChatInput>>
pdfChatVars == <<pdfFile, pdfText, pdfChatHistory, userPdfChatInput, pdfChat>>
finderVars == <<pdfLinks, hasSearchedForPdf>>
appVars == <<pdfVariant, navVars, homeVars, busyVars, error, quizVars, inputVars,
             contentVars, flashcards, answersVars, tutorVars, pdfChatVars,
             finderVars, pending, last>>
vars == <<pvars, appVars>>

NotRun == [isArray |-> FALSE, items |-> <<<<"not run">>>>]

\* useState initial values
AppInit ==
    /\ pdfVariant \in BOOLEAN
    /\ appState = "HOME" /\ previousAppState = "HOME"
    /\ textbookName = <<>> /\ isLanguageBook = FALSE
    /\ isLoading = FALSE /\ error = NoError
    /\ generatedContent = "" /\ contentStale = FALSE
    /\ syllabus = ""
    /\ quizQuestions = <<>> /\ currentQuestionIndex = 0 /\ userAnswers = <<>>
    /\ quizScore = 0 /\ isSubmittingAnswer = FALSE /\ incorrectAnswers = <<>>
    /\ showEvaluationResult = FALSE /\ showIncorrectList = FALSE
    /\ evalsDone = 0
    /\ flashcards = ArrayOf(<<>>) /\ flashcardTopic = ""
    /\ summaryTopic = ""
    /\ questionsToAnswer = "" /\ incorrectQuestionsList = <<>>
    /\ showIncorrectQuestions = FALSE
    /\ studyPlanGoal = "" /\ studyPlanSyllabus = "" /\ studyPlanTimeframe = ""
    /\ chat = "null" /\ chatHistory = <<>> /\ userChatInput = <<>>
    /\ isTutorLoading = FALSE
    /\ pdfFile = "null" /\ pdfText = "" /\ isParsingPdf = FALSE
    /\ pdfChatHistory = <<>> /\ userPdfChatInput = <<>>
    /\ isPdfChatLoading = FALSE /\ pdfChat = "null"
    /\ pdfLinks = <<>> /\ hasSearchedForPdf = FALSE
    /\ pending = EmptyBag
    /\ last = [op |-> "mount", arg |-> "", got |-> <<>>]

ParseIdle == respText = <<>> /\ quizOut = NotRun /\ flashOut = NotRun

Init == AppInit /\ ParseIdle

\* ------------------------------------------------------------ closures
\* an await in progress: the handler, and what its continuation reads from
\* the render it was started in
Request(kind) ==
    [kind |-> kind, stale |-> FALSE, idx |-> 0, qlen |-> 0,
     question |-> <<>>, answer |-> "", first |-> FALSE]

Staled(r) == [r EXCEPT !.stale = TRUE]
Fresh(r) == [r EXCEPT !.stale = FALSE]
\* every request started before the screen changed belongs to an earlier visit
MarkStale(B) ==
    LET S == {Staled(r) : r \in BagToSet(B)} IN
    [s \in S |-> CopiesIn(s, B) + (IF Fresh(s) = s THEN 0 ELSE CopiesIn(Fresh(s), B))]

Await(r) == pending (+) SetToBag({r})
Resume(r) == pending (-) SetToBag({r})
CanAwait == BagCardinality(pending) < MaxInFlight
Awaiting(kind) == {r \in BagToSet(pending) : r.kind = kind}

\* the awaits left after a step that takes the app to screen s
Visit(s, B) == IF s = appState THEN B ELSE MarkStale(B)

\* useEffect on [appState]: a tutor session exists while AI_TUTOR is shown
\* and the history is emptied on every other screen change
AppStateEffect(s, history) ==
    /\ chat' = IF s = appState THEN chat
               ELSE IF s = "AI_TUTOR" THEN "session" ELSE "null"
    /\ chatHistory' = IF s = appState \/ s = "AI_TUTOR" THEN history ELSE <<>>

\* handleError's resets, then the handler's own trailing reset of flag own
handleErrorClears(flag) == flag = "isLoading" \/ pdfVariant
FlagAfterHandleErrorOnly(flag, value, own, threw) ==
    IF threw /\ handleErrorClears(flag) THEN FALSE ELSE value
FlagAfter(flag, value, own, threw) ==
    IF flag = own \/ (threw /\ handleErrorClears(flag)) THEN FALSE ELSE value
Settle(own, threw) ==
    /\ isLoading' = FlagAfter("isLoading", isLoading, own, threw)
    /\ isSubmittingAnswer' = FlagAfter("isSubmittingAnswer", isSubmittingAnswer, own, threw)
    /\ isTutorLoading' = FlagAfter("isTutorLoading", isTutorLoading, own, threw)
    /\ isPdfChatLoading' = FlagAfter("isPdfChatLoading", isPdfChatLoading, own, threw)
    /\ isParsingPdf' = FlagAfter("isParsingPdf", isParsingPdf, own, threw)

Did(op, arg) == last' = [op |-> op, arg |-> arg, got |-> <<>>]
\* a continuation that ran with the text the backend returned
Received(op, arg, text) == last' = [op |-> op, arg |-> arg, got |-> text]
\* a continuation that ran its catch block for the backend's error e
Caught(op, e) == Received(op, "failed", e)

\* ------------------------------------------------------------- HOME
Names == {<<>>, <<Space>>, <<"B">>, <<Space, "B">>}
Yes == <<"Y", "e", "s", ".">>
No == <<"N", "o", ".">>
YesNo == {Yes, No}

\* a name input that can be edited from every screen
setTextbookNameAnywhere(v) ==
    /\ ~isLoading
    /\ v # textbookName
    /\ textbookName' = v
    /\ Did("setTextbookName", "")
    /\ UNCHANGED <<pvars, pdfVariant, navVars, isLanguageBook, busyVars, error,
                   quizVars, inputVars, contentVars, flashcards, answersVars,
                   tutorVars, pdfChatVars, finderVars, pending>>
\* the HOME input's onChange
setTextbookName(v) ==
    /\ appState = "HOME" /\ ~isLoading
    /\ v # textbookName
    /\ textbookName' = v
    /\ Did("setTextbookName", "")
    /\ UNCHANGED <<pvars, pdfVariant, navVars, isLanguageBook, busyVars, error,
                   quizVars, inputVars, contentVars, flashcards, answersVars,
                   tutorVars, pdfChatVars, finderVars, pending>>

\* a name tested without trimming it
UntrimmedName(s) == s
\* textbookName.trim()
TrimmedName(s) == trim(s)

\* handleTextbookSubmit up to its first await (button or Enter key)
handleTextbookSubmit ==
    /\ appState = "HOME" /\ ~isLoading
    /\ IF TrimmedName(textbookName) = <<>>
       THEN /\ Did("handleTextbookSubmit", "blank")
            /\ UNCHANGED <<isLoading, error, pending>>
       ELSE /\ CanAwait
            /\ isLoading' = TRUE
            /\ error' = NoError
            /\ pending' = Await(Request("researchTextbook"))
            /\ Did("handleTextbookSubmit", "sent")
    /\ UNCHANGED <<pvars, pdfVariant, navVars, homeVars, isSubmittingAnswer,
                   isTutorLoading, isPdfChatLoading, isParsingPdf,
                   quizVars, inputVars, contentVars, flashcards, answersVars,
                   tutorVars, pdfChatVars, finderVars>>

\* researchTextbook returned: text.toLowerCase().startsWith('yes')
researchTextbookDone ==
    \E r \in Awaiting("researchTextbook"), text \in YesNo :
        /\ IF startsWith(toLowerCase(text), <<"y", "e", "s">>)
           THEN /\ pending' = Resume(r) (+) SetToBag({[r EXCEPT !.kind = "isLanguageTextbook"]})
                /\ Received("researchTextbook", "yes", text)
                /\ UNCHANGED <<error, busyVars>>
           ELSE /\ pending' = Resume(r)
                /\ error' = NotFoundError
                /\ Settle("isLoading", FALSE)
                /\ Received("researchTextbook", "no", text)
        /\ UNCHANGED <<pvars, pdfVariant, navVars, homeVars,
                       quizVars, inputVars, contentVars, flashcards, answersVars,
                       tutorVars, pdfChatVars, finderVars>>

\* isLanguageTextbook returned: text.toLowerCase().includes('yes')
isLanguageTextbookDone ==
    \E r \in Awaiting("isLanguageTextbook"), text \in YesNo :
        LET s == "MENU" IN
        /\ isLanguageBook' = includes(toLowerCase(text), <<"y", "e", "s">>)
        /\ appState' = s
        /\ AppStateEffect(s, chatHistory)
        /\ pending' = Visit(s, Resume(r))
        /\ Settle("isLoading", FALSE)
        /\ Did("isLanguageTextbook", "")
        /\ UNCHANGED <<pvars, pdfVariant, previousAppState, textbookName, error,
                       quizVars, inputVars, contentVars, flashcards, answersVars,
                       userChatInput, pdfChatVars, finderVars>>

\* either call of handleTextbookSubmit threw
handleTextbookSubmitFailed ==
    \E r \in Awaiting("researchTextbook") \cup Awaiting("isLanguageTextbook"),
       e \in BackendErrors :
        /\ pending' = Resume(r)
        /\ error' = handleErrorMessage(generateContentThrows(e))
        /\ Settle("isLoading", TRUE)
        /\ Caught("handleTextbookSubmit", e)
        /\ UNCHANGED <<pvars, pdfVariant, navVars, homeVars,
                       quizVars, inputVars, contentVars, flashcards, answersVars,
                       tutorVars, pdfChatVars, finderVars>>

\* ------------------------------------------------------- navigation
\* a menu with a card for the grammar options
MenuCardsWithGrammar ==
    {"QUIZ_SYLLABUS", "FLASHCARDS", "SUMMARY", "ANSWERS", "QUESTION_PAPER",
     "STUDY_PLAN", "GRAMMAR_OPTIONS"}
    \cup (IF pdfVariant THEN {"PDF_CHAT", "PDF_FINDER"} ELSE {})
MenuCards ==
    {"QUIZ_SYLLABUS", "FLASHCARDS", "SUMMARY", "ANSWERS", "QUESTION_PAPER",
     "STUDY_PLAN"} \cup (IF pdfVariant THEN {"PDF_CHAT", "PDF_FINDER"} ELSE {})

\* the screens renderState gives a BackButton (or a Back to Menu button)
BackScreens ==
    {"QUIZ_SYLLABUS", "QUIZ_RESULTS", "FLASHCARDS", "SUMMARY", "STUDY_PLAN",
     "ANSWERS", "QUESTION_PAPER", "GRAMMAR_OPTIONS"}
    \cup (IF pdfVariant THEN {"PDF_CHAT", "PDF_FINDER"} ELSE {})

\* the screens that show the floating tutor button
TutorButtonShown ==
    /\ appState \notin {"HOME", "AI_TUTOR"}
    /\ ~(pdfVariant /\ appState = "PDF_CHAT")

navigateTo(s) ==
    /\ generatedContent' = ""
    /\ contentStale' = FALSE
    /\ previousAppState' = appState
    /\ appState' = s
    /\ AppStateEffect(s, chatHistory)
    /\ pending' = Visit(s, pending)
    /\ UNCHANGED <<pvars, pdfVariant, homeVars, busyVars, error, quizVars,
                   inputVars, flashcards, answersVars, userChatInput,
                   pdfChatVars, finderVars>>

\* the case labels of renderState's switch; every other value falls to the
\* default branch
PanelCases ==
    {"HOME", "MENU", "QUIZ_SYLLABUS", "QUIZ", "QUIZ_RESULTS", "FLASHCARDS",
     "SUMMARY", "AI_TUTOR", "STUDY_PLAN", "ANSWERS", "QUESTION_PAPER"}
    \cup (IF pdfVariant THEN {"PDF_CHAT", "PDF_FINDER"} ELSE {})
\* the branch of the switch that renderState returns from
renderState == IF appState \in PanelCases THEN appState ELSE "default"

\* a card of the MENU screen
MenuCard(offered) ==
    \E s \in MenuCards \cap offered :
        /\ appState = "MENU"
        /\ navigateTo(s)
        /\ Did("navigateTo", s)

\* the FloatingActionButton
OpenTutor ==
    /\ TutorButtonShown
    /\ navigateTo("AI_TUTOR")
    /\ Did("navigateTo", "AI_TUTOR")

\* a Close button that goes to the menu
CloseTutorToMenu ==
    /\ appState = "AI_TUTOR"
    /\ appState' = "MENU"
    /\ AppStateEffect("MENU", chatHistory)
    /\ pending' = Visit("MENU", pending)
    /\ Did("closeTutor", "")
    /\ UNCHANGED <<pvars, pdfVariant, previousAppState, homeVars, busyVars, error,
                   quizVars, inputVars, contentVars, flashcards, answersVars,
                   userChatInput, pdfChatVars, finderVars>>
\* the Close button of AI_TUTOR: setAppState(previousAppState)
CloseTutor ==
    /\ appState = "AI_TUTOR"
    /\ appState' = previousAppState
    /\ AppStateEffect(previousAppState, chatHistory)
    /\ pending' = Visit(previousAppState, pending)
    /\ Did("closeTutor", "")
    /\ UNCHANGED <<pvars, pdfVariant, previousAppState, homeVars, busyVars, error,
                   quizVars, inputVars, contentVars, flashcards, answersVars,
                   userChatInput, pdfChatVars, finderVars>>

\* the reset without setQuizScore(0)
QuizResetKeepingScore ==
    /\ quizQuestions' = <<>>
    /\ currentQuestionIndex' = 0
    /\ userAnswers' = <<>>
    /\ quizScore' = quizScore
\* handleBackToMenu's resets of the quiz
QuizReset ==
    /\ quizQuestions' = <<>>
    /\ currentQuestionIndex' = 0
    /\ userAnswers' = <<>>
    /\ quizScore' = 0

handleBackToMenu ==
    /\ appState \in BackScreens
    /\ appState' = "MENU"
    /\ error' = NoError
    /\ generatedContent' = "" /\ contentStale' = FALSE
    /\ QuizReset
    /\ incorrectAnswers' = IF pdfVariant THEN <<>> ELSE incorrectAnswers
    /\ showEvaluationResult' = IF pdfVariant THEN FALSE ELSE showEvaluationResult
    /\ showIncorrectList' = IF pdfVariant THEN FALSE ELSE showIncorrectList
    /\ flashcards' = ArrayOf(<<>>)
    /\ syllabus' = ""
    /\ pdfFile' = IF pdfVariant THEN "null" ELSE pdfFile
    /\ pdfText' = IF pdfVariant THEN "" ELSE pdfText
    /\ pdfChatHistory' = IF pdfVariant THEN <<>> ELSE pdfChatHistory
    /\ pdfChat' = IF pdfVariant THEN "null" ELSE pdfChat
    /\ pdfLinks' = IF pdfVariant THEN <<>> ELSE pdfLinks
    /\ hasSearchedForPdf' = IF pdfVariant THEN FALSE ELSE hasSearchedForPdf
    /\ AppStateEffect("MENU", chatHistory)
    /\ pending' = Visit("MENU", pending)
    /\ evalsDone' = 0
    /\ Did("handleBackToMenu", appState)
    /\ UNCHANGED <<pvars, pdfVariant, previousAppState, homeVars, busyVars,
                   flashcardTopic, summaryTopic, questionsToAnswer,
                   studyPlanGoal, studyPlanSyllabus, studyPlanTimeframe,
                   answersVars, userChatInput, userPdfChatInput>>

\* ------------------------------------------------------ input fields
FieldValues == {"", "x"}

\* onChange of the syllabus textarea (quiz topics and question paper)
setSyllabus(v) ==
    /\ appState \in {"QUIZ_SYLLABUS", "QUESTION_PAPER"}
    /\ v # syllabus
    /\ syllabus' = v
    /\ Did("setSyllabus", "")
    /\ UNCHANGED <<pvars, pdfVariant, navVars, homeVars, busyVars, error, quizVars,
                   flashcardTopic, summaryTopic, questionsToAnswer, studyPlanGoal,
                   studyPlanSyllabus, studyPlanTimeframe, contentVars, flashcards,
                   answersVars, tutorVars, pdfChatVars, finderVars, pending>>

setFlashcardTopic(v) ==
    /\ appState = "FLASHCARDS"
    /\ v # flashcardTopic
    /\ flashcardTopic' = v
    /\ Did("setFlashcardTopic", "")
    /\ UNCHANGED <<pvars, pdfVariant, navVars, homeVars, busyVars, error, quizVars,
                   syllabus, summaryTopic, questionsToAnswer, studyPlanGoal,
                   studyPlanSyllabus, studyPlanTimeframe, contentVars, flashcards,
                   answersVars, tutorVars, pdfChatVars, finderVars, pending>>

setSummaryTopic(v) ==
    /\ appState = "SUMMARY"
    /\ v # summaryTopic
    /\ summaryTopic' = v
    /\ Did("setSummaryTopic", "")
    /\ UNCHANGED <<pvars, pdfVariant, navVars, homeVars, busyVars, error, quizVars,
                   syllabus, flashcardTopic, questionsToAnswer, studyPlanGoal,
                   studyPlanSyllabus, studyPlanTimeframe, contentVars, flashcards,
                   answersVars, tutorVars, pdfChatVars, finderVars, pending>>

setQuestionsToAnswer(v) ==
    /\ appState = "ANSWERS"
    /\ v # questionsToAnswer
    /\ questionsToAnswer' = v
    /\ Did("setQuestionsToAnswer", "")
    /\ UNCHANGED <<pvars, pdfVariant, navVars, homeVars, busyVars, error, quizVars,
                   syllabus, flashcardTopic, summaryTopic, studyPlanGoal,
                   studyPlanSyllabus, studyPlanTimeframe, contentVars, flashcards,
                   answersVars, tutorVars, pdfChatVars, finderVars, pending>>

\* the STUDY_PLAN form is rendered while there is no plan and no request
StudyPlanFormShown ==
    appState = "STUDY_PLAN" /\ generatedContent = "" /\ ~isLoading

setStudyPlanGoal(v) ==
    /\ StudyPlanFormShown
    /\ v # studyPlanGoal
    /\ studyPlanGoal' = v
    /\ Did("setStudyPlanGoal", "")
    /\ UNCHANGED <<pvars, pdfVariant, navVars, homeVars, busyVars, error, quizVars,
                   syllabus, flashcardTopic, summaryTopic, questionsToAnswer,
                   studyPlanSyllabus, studyPlanTimeframe, contentVars, flashcards,
                   answersVars, tutorVars, pdfChatVars, finderVars, pending>>

setStudyPlanSyllabus(v) ==
    /\ StudyPlanFormShown
    /\ v # studyPlanSyllabus
    /\ studyPlanSyllabus' = v
    /\ Did("setStudyPlanSyllabus", "")
    /\ UNCHANGED <<pvars, pdfVariant, navVars, homeVars, busyVars, error, quizVars,
                   syllabus, flashcardTopic, summaryTopic, questionsToAnswer,
                   studyPlanGoal, studyPlanTimeframe, contentVars, flashcards,
                   answersVars, tutorVars, pdfChatVars, finderVars, pending>>

setStudyPlanTimeframe(v) ==
    /\ StudyPlanFormShown
    /\ v # studyPlanTimeframe
    /\ studyPlanTimeframe' = v
    /\ Did("setStudyPlanTimeframe", "")
    /\ UNCHANGED <<pvars, pdfVariant, navVars, homeVars, busyVars, error, quizVars,
                   syllabus, flashcardTopic, summaryTopic, questionsToAnswer,
                   studyPlanGoal, studyPlanSyllabus, contentVars, flashcards,
                   answersVars, tutorVars, pdfChatVars, finderVars, pending>>

\* ------------------------------------- the four generated-text handlers
\* handleGenerateStudyPlan, handleSummarizeTopic, handleGetAnswers and
\* handleGenerateQuestionPaper share one shape: set isLoading, clear the
\* content, await, set the content, clear isLoading.
ContentOf(kind) ==
    CASE kind = "summarizeTopic" -> "summary"
      [] kind = "getAnswers" -> "answers"
      [] kind = "generateQuestionPaper" -> "question paper"
      [] kind = "generateStudyPlan" -> "study plan"

\* what the PDF variant's getAnswers may report as incorrect questions
IncorrectQuestionLists == {<<>>, <<"q">>}

GenerateStart(kind) ==
    /\ ~isLoading
    /\ CanAwait
    /\ isLoading' = TRUE
    /\ generatedContent' = "" /\ contentStale' = FALSE
    /\ IF kind = "getAnswers" /\ pdfVariant
       THEN incorrectQuestionsList' = <<>> /\ showIncorrectQuestions' = FALSE
       ELSE UNCHANGED answersVars
    /\ pending' = Await(Request(kind))
    /\ Did(kind, "sent")
    /\ UNCHANGED <<pvars, pdfVariant, navVars, homeVars, isSubmittingAnswer,
                   isTutorLoading, isPdfChatLoading, isParsingPdf, error, quizVars,
                   inputVars, flashcards, tutorVars, pdfChatVars, finderVars>>

GenerateDone(kind) ==
    \E r \in Awaiting(kind), wrong \in IncorrectQuestionLists :
        /\ generatedContent' = ContentOf(kind)
        /\ contentStale' = r.stale
        /\ IF kind = "getAnswers" /\ pdfVariant
           THEN incorrectQuestionsList' = wrong
           ELSE wrong = <<>> /\ incorrectQuestionsList' = incorrectQuestionsList
        /\ Settle("isLoading", FALSE)
        /\ pending' = Resume(r)
        /\ Did(kind, "done")
        /\ UNCHANGED <<pvars, pdfVariant, navVars, homeVars, error, quizVars,
                       inputVars, flashcards, showIncorrectQuestions, tutorVars,
                       pdfChatVars, finderVars>>

GenerateFailed(kind) ==
    \E r \in Awaiting(kind), e \in BackendErrors :
        /\ error' = handleErrorMessage(generateContentThrows(e))
        /\ Settle("isLoading", TRUE)
        /\ pending' = Resume(r)
        /\ Caught(kind, e)
        /\ UNCHANGED <<pvars, pdfVariant, navVars, homeVars, quizVars, inputVars,
                       contentVars, flashcards, answersVars, tutorVars,
                       pdfChatVars, finderVars>>

handleGenerateStudyPlan ==
    /\ StudyPlanFormShown
    /\ studyPlanGoal # "" /\ studyPlanSyllabus # "" /\ studyPlanTimeframe # ""
    /\ GenerateStart("generateStudyPlan")
generateStudyPlanDone == GenerateDone("generateStudyPlan")
generateStudyPlanFailed == GenerateFailed("generateStudyPlan")

handleSummarizeTopic ==
    /\ appState = "SUMMARY" /\ summaryTopic # ""
    /\ GenerateStart("summarizeTopic")
summarizeTopicDone == GenerateDone("summarizeTopic")
summarizeTopicFailed == GenerateFailed("summarizeTopic")

handleGetAnswers ==
    /\ appState = "ANSWERS" /\ questionsToAnswer # ""
    /\ GenerateStart("getAnswers")
getAnswersDone == GenerateDone("getAnswers")
getAnswersFailed == GenerateFailed("getAnswers")

handleGenerateQuestionPaper ==
    /\ appState = "QUESTION_PAPER" /\ syllabus # ""
    /\ GenerateStart("generateQuestionPaper")
generateQuestionPaperDone == GenerateDone("generateQuestionPaper")
generateQuestionPaperFailed == GenerateFailed("generateQuestionPaper")

\* the toggle above the answers (PDF variant)
toggleShowIncorrectQuestions ==
    /\ pdfVariant /\ appState = "ANSWERS" /\ ~isLoading
    /\ incorrectQuestionsList # <<>>
    /\ showIncorrectQuestions' = ~showIncorrectQuestions
    /\ Did("toggleShowIncorrectQuestions", "")
    /\ UNCHANGED <<pvars, pdfVariant, navVars, homeVars, busyVars, error, quizVars,
                   inputVars, contentVars, flashcards, incorrectQuestionsList,
                   tutorVars, pdfChatVars, finderVars, pending>>

\* ------------------------------------------------------------ flashcards
FlashObject == <<"{", "'flashcards'", ":", "[", "'Q1'", "]", "}">>
QuizObject == <<"{", "'questions'", ":", "[", "'Q1'", ",", "'Q2'", "]", "}">>
\* responses to the flashcards prompt: bare JSON, fenced JSON, JSON without
\* the key, JSON cut short, prose, null
FlashTexts ==
    { <<FlashObject>>,
      <<<<"Sure", ":", FenceOpen>>, FlashObject, <<FenceClose>>>>,
      <<QuizObject>>,
      <<<<"{", "'flashcards'", ":", "[", "'Q1'">>>>,
      <<<<"1", ".", Space, "What">>>>,
      <<<<"null">>>> }

handleGenerateFlashcards ==
    /\ appState = "FLASHCARDS" /\ ~isLoading /\ flashcardTopic # ""
    /\ CanAwait
    /\ isLoading' = TRUE
    /\ flashcards' = ArrayOf(<<>>)
    /\ pending' = Await(Request("generateFlashcards"))
    /\ Did("generateFlashcards", "sent")
    /\ UNCHANGED <<pvars, pdfVariant, navVars, homeVars, isSubmittingAnswer,
                   isTutorLoading, isPdfChatLoading, isParsingPdf, error, quizVars,
                   inputVars, contentVars, answersVars, tutorVars, pdfChatVars,
                   finderVars>>

generateFlashcardsDone ==
    \E r \in Awaiting("generateFlashcards"), text \in FlashTexts :
        /\ flashcards' = generateFlashcards(text)
        /\ Settle("isLoading", FALSE)
        /\ pending' = Resume(r)
        /\ Did("generateFlashcards", "done")
        /\ UNCHANGED <<pvars, pdfVariant, navVars, homeVars, error, quizVars,
                       inputVars, contentVars, answersVars, tutorVars,
                       pdfChatVars, finderVars>>

generateFlashcardsFailed ==
    \E r \in Awaiting("generateFlashcards"), e \in BackendErrors :
        /\ error' = handleErrorMessage(generateContentThrows(e))
        /\ Settle("isLoading", TRUE)
        /\ pending' = Resume(r)
        /\ Caught("generateFlashcards", e)
        /\ UNCHANGED <<pvars, pdfVariant, navVars, homeVars, quizVars, inputVars,
                       contentVars, flashcards, answersVars, tutorVars,
                       pdfChatVars, finderVars>>

\* ------------------------------------------------------------------ quiz
\* responses to the quiz prompt: two questions as JSON, one question as a
\* numbered line, JSON without the key, and JSON whose 'questions' is a
\* number or a string instead of an array
QuizTexts ==
    { <<QuizObject>>,
      <<<<"Here", "you", "go">>, <<"1", ".", Space, "What">>>>,
      <<FlashObject>>,
      <<<<"{", "'questions'", ":", "1", "2", "}">>>>,
      <<<<"{", "'questions'", ":", "'Q1'", "}">>>> }

\* the characters of a string literal
StrChars(lit) ==
    CASE lit = "'Q1'" -> <<"Q", "1">>
      [] lit = "'Q2'" -> <<"Q", "2">>
      [] lit = "'questions'" -> <<"q", "u", "e", "s", "t", "i", "o", "n", "s">>
      [] lit = "'flashcards'" -> <<"f", "l", "a", "s", "h", "c", "a", "r", "d", "s">>
      [] OTHER -> <<>>
IsStringValue(result) ==
    ~result.isArray /\ Len(result.items[1]) = 1 /\ result.items[1][1] \in StrLits
\* questions.length is undefined for a value that is neither array nor string
NoLength == -1
JsLength(result) ==
    IF result.isArray THEN Len(result.items)
    ELSE IF IsStringValue(result) THEN Len(StrChars(result.items[1][1]))
    ELSE NoLength
\* what questions[i] reads: the elements of an array, the characters of a
\* string, nothing for any other value
Indexed(result) ==
    IF result.isArray THEN result.items
    ELSE IF IsStringValue(result)
         THEN LET c == StrChars(result.items[1][1]) IN [i \in 1..Len(c) |-> <<c[i]>>]
    ELSE <<>>

Chars(w) ==
    CASE w = "correct" -> <<"c", "o", "r", "r", "e", "c", "t">>
      [] w = "Correct." -> <<"C", "o", "r", "r", "e", "c", "t", ".">>
      [] w = "CORRECT" -> <<"C", "O", "R", "R", "E", "C", "T">>
      [] w = "Correctly" -> <<"C", "o", "r", "r", "e", "c", "t", "l", "y">>
      [] w = "Incorrect." -> <<"I", "n", "c", "o", "r", "r", "e", "c", "t", ".">>
      [] w = " Correct" -> <<Space, "C", "o", "r", "r", "e", "c", "t">>
      [] w = "**Correct**" -> <<"*", "*", "C", "o", "r", "r", "e", "c", "t", "*", "*">>
      [] w = "Right" -> <<"R", "i", "g", "h", "t">>
      [] w = "Correc" -> <<"C", "o", "r", "r", "e", "c">>
      [] w = "" -> <<>>

\* verdict texts evaluateAnswer may return
Verdicts == {Chars("Correct."), Chars("Incorrect.")}
AllVerdicts ==
    {Chars(w) : w \in {"Correct.", "CORRECT", "Correctly", "correct", "Incorrect.",
                       " Correct", "**Correct**", "Right", "Correc", ""}}

\* array[i] of a JavaScript array, 0-based
At(array, i, undefined) == IF i + 1 <= Len(array) THEN array[i + 1] ELSE undefined
\* array[i] = v on a copy: writing past the end leaves holes
AssignAt(array, i, v, hole) ==
    [k \in 1..(IF i + 1 > Len(array) THEN i + 1 ELSE Len(array)) |->
        IF k = i + 1 THEN v ELSE IF k <= Len(array) THEN array[k] ELSE hole]
\* new Array(n) without the fill
Unfilled(n, v) == [k \in 1..n |-> "undefined"]
Filled(n, v) == [k \in 1..n |-> v]

handleGenerateQuiz ==
    /\ appState = "QUIZ_SYLLABUS" /\ ~isLoading
    /\ CanAwait
    /\ isLoading' = TRUE
    /\ quizQuestions' = <<>>
    /\ evalsDone' = 0
    /\ pending' = Await(Request("generateQuizQuestions"))
    /\ Did("generateQuizQuestions", "sent")
    /\ UNCHANGED <<pvars, pdfVariant, navVars, homeVars, isSubmittingAnswer,
                   isTutorLoading, isPdfChatLoading, isParsingPdf, error,
                   currentQuestionIndex, userAnswers, quizScore, incorrectAnswers,
                   showEvaluationResult, showIncorrectList,
                   inputVars, contentVars, flashcards, answersVars, tutorVars,
                   pdfChatVars, finderVars>>

generateQuizQuestionsDone ==
    \E r \in Awaiting("generateQuizQuestions"), text \in QuizTexts :
        LET result == generateQuizQuestions(text)
            questions == Indexed(result)
            \* new Array(undefined) has one slot
            slots == IF JsLength(result) = NoLength THEN 1 ELSE JsLength(result)
            s == IF JsLength(result) > 0 THEN "QUIZ" ELSE "QUIZ_SYLLABUS"
        IN
        /\ quizQuestions' = questions
        /\ userAnswers' = Filled(slots, "")
        /\ incorrectAnswers' = <<>>
        /\ showEvaluationResult' = IF pdfVariant THEN FALSE ELSE showEvaluationResult
        /\ showIncorrectList' = IF pdfVariant THEN FALSE ELSE showIncorrectList
        /\ quizScore' = 0
        /\ currentQuestionIndex' = 0
        /\ evalsDone' = 0
        /\ error' = IF JsLength(result) > 0 THEN error ELSE NoQuizError
        /\ appState' = s
        /\ AppStateEffect(s, chatHistory)
        /\ Settle("isLoading", FALSE)
        /\ pending' = Visit(s, Resume(r))
        /\ Received("generateQuizQuestions",
                    IF JsLength(result) > 0 THEN "done" ELSE "empty", Flatten(text))
        /\ UNCHANGED <<pvars, pdfVariant, previousAppState, homeVars, inputVars,
                       contentVars, flashcards, answersVars, userChatInput,
                       pdfChatVars, finderVars>>

generateQuizQuestionsFailed ==
    \E r \in Awaiting("generateQuizQuestions"), e \in BackendErrors :
        LET s == "QUIZ_SYLLABUS" IN
        /\ error' = handleErrorMessage(generateContentThrows(e))
        /\ appState' = s
        /\ AppStateEffect(s, chatHistory)
        /\ Settle("isLoading", TRUE)
        /\ pending' = Visit(s, Resume(r))
        /\ Caught("generateQuizQuestions", e)
        /\ UNCHANGED <<pvars, pdfVariant, previousAppState, homeVars, quizVars,
                       inputVars, contentVars, flashcards, answersVars,
                       userChatInput, pdfChatVars, finderVars>>

\* the QUIZ screen shows the answer form (the PDF variant swaps it for the
\* reveal panel while showEvaluationResult is set)
AnswerFormShown == appState = "QUIZ" /\ ~(pdfVariant /\ showEvaluationResult)

\* onChange of the answer textarea
setUserAnswer(v) ==
    /\ AnswerFormShown /\ ~isSubmittingAnswer
    /\ v # At(userAnswers, currentQuestionIndex, "")
    /\ userAnswers' = AssignAt(userAnswers, currentQuestionIndex, v, "")
    /\ Did("setUserAnswer", "")
    /\ UNCHANGED <<pvars, pdfVariant, navVars, homeVars, busyVars, error,
                   quizQuestions, currentQuestionIndex, quizScore, incorrectAnswers,
                   showEvaluationResult, showIncorrectList, evalsDone,
                   inputVars, contentVars, flashcards, answersVars, tutorVars,
                   pdfChatVars, finderVars, pending>>

\* handleAnswerSubmit up to its await (isSubmittingAnswer is isEvaluating in
\* the variant without PDF screens)
handleAnswerSubmit ==
    LET answer == At(userAnswers, currentQuestionIndex, "") IN
    /\ AnswerFormShown /\ ~isSubmittingAnswer /\ answer # ""
    /\ CanAwait
    /\ isSubmittingAnswer' = TRUE
    /\ userAnswers' = AssignAt(userAnswers, currentQuestionIndex, answer, "")
    /\ pending' = Await([Request("evaluateAnswer") EXCEPT
                            !.idx = currentQuestionIndex,
                            !.qlen = Len(quizQuestions),
                            !.question = At(quizQuestions, currentQuestionIndex, Undefined),
                            !.answer = answer])
    /\ Did("evaluateAnswer", "sent")
    /\ UNCHANGED <<pvars, pdfVariant, navVars, homeVars, isLoading, isTutorLoading,
                   isPdfChatLoading, isParsingPdf, error,
                   quizQuestions, currentQuestionIndex, quizScore, incorrectAnswers,
                   showEvaluationResult, showIncorrectList, evalsDone,
                   inputVars, contentVars, flashcards, answersVars, tutorVars,
                   pdfChatVars, finderVars>>

\* the word sought anywhere in the verdict
IsCorrectVerdictAnywhere(evaluation) ==
    includes(toLowerCase(evaluation), Chars("correct"))
\* evaluation.toLowerCase().startsWith('correct')
IsCorrectVerdict(evaluation) == startsWith(toLowerCase(evaluation), Chars("correct"))

IncorrectAnswer(r, evaluation) ==
    [question |-> r.question, userAnswer |-> r.answer,
     correctAnswerExplanation |-> evaluation]

\* an advance that ends the quiz on a screen without a panel
AdvanceScreenUnrendered(idx, qlen) ==
    IF idx < qlen - 1 THEN appState ELSE "GRAMMAR_OPTIONS"
\* an advance that never ends the quiz
AdvanceScreenStays(idx, qlen) == appState
\* the screen after advancing from the question a closure saw
AdvanceScreen(idx, qlen) == IF idx < qlen - 1 THEN appState ELSE "QUIZ_RESULTS"
\* an advance that leaves the index where it is
AdvanceIndexStays(idx, qlen) == currentQuestionIndex
AdvanceIndex(idx, qlen) ==
    IF idx < qlen - 1 THEN currentQuestionIndex + 1 ELSE currentQuestionIndex

\* the continuation of handleAnswerSubmit for a returned verdict
evaluateAnswerDone(verdicts) ==
    \E r \in Awaiting("evaluateAnswer"), evaluation \in verdicts :
        LET correct == IsCorrectVerdict(evaluation)
            advance == correct \/ ~pdfVariant
            s == IF advance THEN AdvanceScreen(r.idx, r.qlen) ELSE appState
        IN
        /\ quizScore' = IF correct THEN quizScore + 1 ELSE quizScore
        /\ incorrectAnswers' =
              IF correct THEN incorrectAnswers
              ELSE Append(incorrectAnswers, IncorrectAnswer(r, evaluation))
        /\ showEvaluationResult' =
              IF pdfVariant THEN ~correct ELSE showEvaluationResult
        /\ currentQuestionIndex' =
              IF advance THEN AdvanceIndex(r.idx, r.qlen) ELSE currentQuestionIndex
        /\ appState' = s
        /\ AppStateEffect(s, chatHistory)
        /\ evalsDone' = evalsDone + 1
        /\ Settle("isSubmittingAnswer", FALSE)
        /\ pending' = Visit(s, Resume(r))
        /\ Received("evaluateAnswer", IF correct THEN "correct" ELSE "incorrect",
                    evaluation)
        /\ UNCHANGED <<pvars, pdfVariant, previousAppState, homeVars, error,
                       quizQuestions, userAnswers, showIncorrectList,
                       inputVars, contentVars, flashcards, answersVars,
                       userChatInput, pdfChatVars, finderVars>>

evaluateAnswerFailed ==
    \E r \in Awaiting("evaluateAnswer"), e \in BackendErrors :
        /\ error' = handleErrorMessage(generateContentThrows(e))
        /\ Settle("isSubmittingAnswer", TRUE)
        /\ pending' = Resume(r)
        /\ Caught("evaluateAnswer", e)
        /\ UNCHANGED <<pvars, pdfVariant, navVars, homeVars, quizVars, inputVars,
                       contentVars, flashcards, answersVars, tutorVars,
                       pdfChatVars, finderVars>>

\* the Proceed button of the reveal panel (PDF variant)
handleProceedToNext ==
    LET s == AdvanceScreen(currentQuestionIndex, Len(quizQuestions)) IN
    /\ pdfVariant /\ appState = "QUIZ" /\ showEvaluationResult
    /\ showEvaluationResult' = FALSE
    /\ currentQuestionIndex' = AdvanceIndex(currentQuestionIndex, Len(quizQuestions))
    /\ appState' = s
    /\ AppStateEffect(s, chatHistory)
    /\ pending' = Visit(s, pending)
    /\ Did("handleProceedToNext", "")
    /\ UNCHANGED <<pvars, pdfVariant, previousAppState, homeVars, busyVars, error,
                   quizQuestions, userAnswers, quizScore, incorrectAnswers,
                   showIncorrectList, evalsDone,
                   inputVars, contentVars, flashcards, answersVars,
                   userChatInput, pdfChatVars, finderVars>>

\* the "Incorrect questions (n)" button and the overlay's close (PDF variant)
setShowIncorrectList(v) ==
    /\ pdfVariant /\ appState = "QUIZ"
    /\ IF v THEN incorrectAnswers # <<>> /\ ~showIncorrectList ELSE showIncorrectList
    /\ showIncorrectList' = v
    /\ Did("setShowIncorrectList", "")
    /\ UNCHANGED <<pvars, pdfVariant, navVars, homeVars, busyVars, error,
                   quizQuestions, currentQuestionIndex, userAnswers, quizScore,
                   incorrectAnswers, showEvaluationResult, evalsDone,
                   inputVars, contentVars, flashcards, answersVars, tutorVars,
                   pdfChatVars, finderVars, pending>>

\* ----------------------------------------------------------- AI tutor
ChatInputs == {<<>>, <<Space>>, <<"h", "i">>}
Sorry == "Sorry, I encountered an error."
UserMessage(text) == [role |-> "user", text |-> text]
ModelMessage(text) == [role |-> "model", text |-> text]

setUserChatInput(v) ==
    /\ appState = "AI_TUTOR" /\ ~isTutorLoading
    /\ v # userChatInput
    /\ userChatInput' = v
    /\ Did("setUserChatInput", "")
    /\ UNCHANGED <<pvars, pdfVariant, navVars, homeVars, busyVars, error, quizVars,
                   inputVars, contentVars, flashcards, answersVars, chat,
                   chatHistory, pdfChatVars, finderVars, pending>>

\* a send that tests the input without trimming it
handleChatSendUntrimmed ==
    /\ appState = "AI_TUTOR" /\ ~isTutorLoading
    /\ IF userChatInput = <<>> \/ chat = "null"
       THEN /\ Did("handleChatSend", "nothing")
            /\ UNCHANGED <<userChatInput, chatHistory, isTutorLoading, pending>>
       ELSE /\ CanAwait /\ Len(chatHistory) < MaxChat
            /\ userChatInput' = <<>>
            /\ chatHistory' = Append(chatHistory, UserMessage("question"))
            /\ isTutorLoading' = TRUE
            /\ pending' = Await(Request("sendMessage"))
            /\ Did("handleChatSend", "sent")
    /\ UNCHANGED <<pvars, pdfVariant, navVars, homeVars, isLoading,
                   isSubmittingAnswer, isPdfChatLoading, isParsingPdf, error,
                   quizVars, inputVars, contentVars, flashcards, answersVars,
                   chat, pdfChatVars, finderVars>>
\* handleChatSend up to its await (Send button or Enter key)
handleChatSend ==
    /\ appState = "AI_TUTOR" /\ ~isTutorLoading
    /\ IF trim(userChatInput) = <<>> \/ chat = "null"
       THEN /\ Did("handleChatSend", "nothing")
            /\ UNCHANGED <<userChatInput, chatHistory, isTutorLoading, pending>>
       ELSE /\ CanAwait /\ Len(chatHistory) < MaxChat
            /\ userChatInput' = <<>>
            /\ chatHistory' = Append(chatHistory, UserMessage("question"))
            /\ isTutorLoading' = TRUE
            /\ pending' = Await(Request("sendMessage"))
            /\ Did("handleChatSend", "sent")
    /\ UNCHANGED <<pvars, pdfVariant, navVars, homeVars, isLoading,
                   isSubmittingAnswer, isPdfChatLoading, isParsingPdf, error,
                   quizVars, inputVars, contentVars, flashcards, answersVars,
                   chat, pdfChatVars, finderVars>>

sendMessageDone ==
    \E r \in Awaiting("sendMessage") :
        /\ chatHistory' = Append(chatHistory, ModelMessage("reply"))
        /\ Settle("isTutorLoading", FALSE)
        /\ pending' = Resume(r)
        /\ Did("sendMessage", "done")
        /\ UNCHANGED <<pvars, pdfVariant, navVars, homeVars, error, quizVars,
                       inputVars, contentVars, flashcards, answersVars, chat,
                       userChatInput, pdfChatVars, finderVars>>

\* chat.sendMessage threw: the error reaches handleError as the backend sent it
sendMessageFailed ==
    \E r \in Awaiting("sendMessage"), e \in BackendErrors :
        /\ error' = handleErrorMessage(e)
        /\ chatHistory' = Append(chatHistory, ModelMessage(Sorry))
        /\ Settle("isTutorLoading", TRUE)
        /\ pending' = Resume(r)
        /\ Caught("sendMessage", e)
        /\ UNCHANGED <<pvars, pdfVariant, navVars, homeVars, quizVars,
                       inputVars, contentVars, flashcards, answersVars, chat,
                       userChatInput, pdfChatVars, finderVars>>

\* ----------------------------------------------------- PDF chat (variant)
Files == {"none", "image/png", "application/pdf"}

UploadPanelShown ==
    pdfVariant /\ appState = "PDF_CHAT" /\ pdfText = "" /\ ~isParsingPdf
PdfChatShown ==
    pdfVariant /\ appState = "PDF_CHAT" /\ pdfText # "" /\ ~isParsingPdf

\* handlePdfUpload up to its first await
handlePdfUpload(file) ==
    /\ UploadPanelShown
    /\ IF file # "application/pdf"
       THEN /\ error' = InvalidPdfError
            /\ Did("handlePdfUpload", "rejected")
            /\ UNCHANGED <<pdfFile, isParsingPdf, pdfText, pdfChatHistory, pdfChat,
                           pending>>
       ELSE /\ CanAwait
            /\ pdfFile' = "notes.pdf"
            /\ isParsingPdf' = TRUE
            /\ error' = NoError
            /\ pdfText' = ""
            /\ pdfChatHistory' = <<>>
            /\ pdfChat' = "null"
            /\ pending' = Await(Request("getDocument"))
            /\ Did("handlePdfUpload", "parsing")
    /\ UNCHANGED <<pvars, pdfVariant, navVars, homeVars, isLoading,
                   isSubmittingAnswer, isTutorLoading, isPdfChatLoading,
                   quizVars, inputVars, contentVars, flashcards, answersVars,
                   tutorVars, userPdfChatInput, finderVars>>

getDocumentDone ==
    \E r \in Awaiting("getDocument") :
        /\ pdfText' = "page text"
        /\ Settle("isParsingPdf", FALSE)
        /\ pending' = Resume(r)
        /\ Did("getDocument", "done")
        /\ UNCHANGED <<pvars, pdfVariant, navVars, homeVars, error, quizVars,
                       inputVars, contentVars, flashcards, answersVars, tutorVars,
                       pdfFile, pdfChatHistory, userPdfChatInput, pdfChat,
                       finderVars>>

getDocumentFailed ==
    \E r \in Awaiting("getDocument") :
        /\ error' = handleErrorMessage(PdfParseError)
        /\ Settle("isParsingPdf", TRUE)
        /\ pending' = Resume(r)
        /\ Caught("getDocument", PdfParseError)
        /\ UNCHANGED <<pvars, pdfVariant, navVars, homeVars, quizVars,
                       inputVars, contentVars, flashcards, answersVars, tutorVars,
                       pdfChatVars, finderVars>>

\* the (Upload New PDF) link
UploadNewPdf ==
    /\ PdfChatShown
    /\ pdfFile' = "null" /\ pdfText' = "" /\ pdfChat' = "null"
    /\ pdfChatHistory' = <<>>
    /\ Did("uploadNewPdf", "")
    /\ UNCHANGED <<pvars, pdfVariant, navVars, homeVars, busyVars, error, quizVars,
                   inputVars, contentVars, flashcards, answersVars, tutorVars,
                   userPdfChatInput, finderVars, pending>>

setUserPdfChatInput(v) ==
    /\ PdfChatShown /\ ~isPdfChatLoading
    /\ v # userPdfChatInput
    /\ userPdfChatInput' = v
    /\ Did("setUserPdfChatInput", "")
    /\ UNCHANGED <<pvars, pdfVariant, navVars, homeVars, busyVars, error, quizVars,
                   inputVars, contentVars, flashcards, answersVars, tutorVars,
                   pdfFile, pdfText, pdfChatHistory, pdfChat, finderVars, pending>>

\* handlePdfChatSend up to its await: the first message of a session
\* carries the document
handlePdfChatSend ==
    /\ PdfChatShown /\ ~isPdfChatLoading
    /\ IF trim(userPdfChatInput) = <<>> \/ pdfText = ""
       THEN /\ Did("handlePdfChatSend", "nothing")
            /\ UNCHANGED <<userPdfChatInput, pdfChatHistory, isPdfChatLoading,
                           pdfChat, pending>>
       ELSE /\ CanAwait /\ Len(pdfChatHistory) < MaxPdfChat
            /\ userPdfChatInput' = <<>>
            /\ pdfChatHistory' = Append(pdfChatHistory, UserMessage("question"))
            /\ isPdfChatLoading' = TRUE
            /\ pdfChat' = "session"
            /\ pending' = Await([Request("pdfSendMessage") EXCEPT
                                    !.first = (pdfChat = "null")])
            /\ Did("handlePdfChatSend", IF pdfChat = "null" THEN "first" ELSE "next")
    /\ UNCHANGED <<pvars, pdfVariant, navVars, homeVars, isLoading,
                   isSubmittingAnswer, isTutorLoading, isParsingPdf, error,
                   quizVars, inputVars, contentVars, flashcards, answersVars,
                   tutorVars, pdfFile, pdfText, finderVars>>

pdfSendMessageDone ==
    \E r \in Awaiting("pdfSendMessage") :
        /\ pdfChatHistory' = Append(pdfChatHistory, ModelMessage("reply"))
        /\ Settle("isPdfChatLoading", FALSE)
        /\ pending' = Resume(r)
        /\ Did("pdfSendMessage", "done")
        /\ UNCHANGED <<pvars, pdfVariant, navVars, homeVars, error, quizVars,
                       inputVars, contentVars, flashcards, answersVars, tutorVars,
                       pdfFile, pdfText, userPdfChatInput, pdfChat, finderVars>>

pdfSendMessageFailed ==
    \E r \in Awaiting("pdfSendMessage"), e \in BackendErrors :
        /\ error' = handleErrorMessage(e)
        /\ pdfChatHistory' = Append(pdfChatHistory, ModelMessage(Sorry))
        /\ Settle("isPdfChatLoading", TRUE)
        /\ pending' = Resume(r)
        /\ Caught("pdfSendMessage", e)
        /\ UNCHANGED <<pvars, pdfVariant, navVars, homeVars, quizVars,
                       inputVars, contentVars, flashcards, answersVars, tutorVars,
                       pdfFile, pdfText, userPdfChatInput, pdfChat, finderVars>>

\* --------------------------------------------------- PDF finder (variant)
LinkLists == {<<>>, <<"link">>}

handleFindPdf ==
    /\ pdfVariant /\ appState = "PDF_FINDER" /\ ~isLoading /\ ~hasSearchedForPdf
    /\ CanAwait
    /\ isLoading' = TRUE
    /\ pdfLinks' = <<>>
    /\ hasSearchedForPdf' = TRUE
    /\ error' = NoError
    /\ pending' = Await(Request("findPdfOnline"))
    /\ Did("findPdfOnline", "sent")
    /\ UNCHANGED <<pvars, pdfVariant, navVars, homeVars, isSubmittingAnswer,
                   isTutorLoading, isPdfChatLoading, isParsingPdf, quizVars,
                   inputVars, contentVars, flashcards, answersVars, tutorVars,
                   pdfChatVars>>

findPdfOnlineDone ==
    \E r \in Awaiting("findPdfOnline"), links \in LinkLists :
        /\ pdfLinks' = links
        /\ Settle("isLoading", FALSE)
        /\ pending' = Resume(r)
        /\ Did("findPdfOnline", "done")
        /\ UNCHANGED <<pvars, pdfVariant, navVars, homeVars, error, quizVars,
                       inputVars, contentVars, flashcards, answersVars, tutorVars,
                       pdfChatVars, hasSearchedForPdf>>

findPdfOnlineFailed ==
    \E r \in Awaiting("findPdfOnline"), e \in BackendErrors :
        /\ error' = handleErrorMessage(generateContentThrows(e))
        /\ Settle("isLoading", TRUE)
        /\ pending' = Resume(r)
        /\ Caught("findPdfOnline", e)
        /\ UNCHANGED <<pvars, pdfVariant, navVars, homeVars, quizVars,
                       inputVars, contentVars, flashcards, answersVars, tutorVars,
                       pdfChatVars, finderVars>>

\* ------------------------------------------------------- specification
Home ==
    \/ \E v \in Names : setTextbookName(v)
    \/ handleTextbookSubmit
    \/ researchTextbookDone
    \/ isLanguageTextbookDone
    \/ handleTextbookSubmitFailed

\* the HOME screen for a user who types one name
HomeOnce ==
    \/ \E v \in {<<"B">>} : setTextbookName(v)
    \/ handleTextbookSubmit
    \/ researchTextbookDone
    \/ isLanguageTextbookDone
    \/ handleTextbookSubmitFailed

TutorUser ==
    \/ OpenTutor
    \/ CloseTutor
    \/ \E v \in ChatInputs : setUserChatInput(v)
    \/ handleChatSend

TutorBackend ==
    \/ sendMessageDone
    \/ sendMessageFailed

QuizUser ==
    \/ \E v \in FieldValues : setSyllabus(v)
    \/ handleGenerateQuiz
    \/ \E v \in {"", "a"} : setUserAnswer(v)
    \/ handleAnswerSubmit
    \/ handleProceedToNext
    \/ \E v \in BOOLEAN : setShowIncorrectList(v)

QuizBackend(verdicts) ==
    \/ generateQuizQuestionsDone
    \/ generateQuizQuestionsFailed
    \/ evaluateAnswerDone(verdicts)
    \/ evaluateAnswerFailed

TextUser ==
    \/ \E v \in FieldValues : setSummaryTopic(v)
    \/ \E v \in FieldValues : setQuestionsToAnswer(v)
    \/ handleSummarizeTopic
    \/ handleGetAnswers
    \/ toggleShowIncorrectQuestions

TextBackend ==
    \/ summarizeTopicDone
    \/ summarizeTopicFailed
    \/ getAnswersDone
    \/ getAnswersFailed

PlanUser ==
    \/ \E v \in FieldValues : setStudyPlanGoal(v)
    \/ \E v \in FieldValues : setStudyPlanSyllabus(v)
    \/ \E v \in FieldValues : setStudyPlanTimeframe(v)
    \/ handleGenerateStudyPlan
    \/ handleGenerateQuestionPaper

PlanBackend ==
    \/ generateStudyPlanDone
    \/ generateStudyPlanFailed
    \/ generateQuestionPaperDone
    \/ generateQuestionPaperFailed

FlashUser ==
    \/ \E v \in FieldValues : setFlashcardTopic(v)
    \/ handleGenerateFlashcards

FlashBackend ==
    \/ generateFlashcardsDone
    \/ generateFlashcardsFailed

PdfUser ==
    \/ \E f \in Files : handlePdfUpload(f)
    \/ UploadNewPdf
    \/ \E v \in ChatInputs : setUserPdfChatInput(v)
    \/ handlePdfChatSend

PdfBackend ==
    \/ getDocumentDone
    \/ getDocumentFailed
    \/ pdfSendMessageDone
    \/ pdfSendMessageFailed

FinderBackend ==
    \/ findPdfOnlineDone
    \/ findPdfOnlineFailed

\* nothing awaits a response
Idle == BagCardinality(pending) = 0

\* a user who waits for every response before the next click, on every
\* screen of either variant
PatientNext ==
    \/ Home
    \/ Idle /\ MenuCard(AppStates)
    \/ Idle /\ handleBackToMenu
    \/ Idle /\ QuizUser
    \/ QuizBackend(Verdicts)
    \/ Idle /\ TextUser
    \/ TextBackend
    \/ Idle /\ handleGenerateQuestionPaper
    \/ generateQuestionPaperDone
    \/ generateQuestionPaperFailed
    \/ Idle /\ FlashUser
    \/ FlashBackend
    \/ Idle /\ PdfUser
    \/ PdfBackend
    \/ Idle /\ handleFindPdf
    \/ FinderBackend

SpecPatient == Init /\ [][PatientNext]_vars

\* a user who moves between the menu and the generating screens at any
\* moment, responses arriving whenever they do
NavNext ==
    \/ Home
    \/ MenuCard(AppStates \ {"QUIZ_SYLLABUS", "PDF_CHAT"})
    \/ handleBackToMenu
    \/ Idle /\ TextUser
    \/ TextBackend
    \/ Idle /\ PlanUser
    \/ PlanBackend
    \/ Idle /\ FlashUser
    \/ FlashBackend
    \/ Idle /\ handleFindPdf
    \/ FinderBackend

SpecNav == Init /\ [][NavNext]_vars

\* the summary screen and the tutor, used at any moment
BusyNext ==
    \/ Home
    \/ MenuCard({"SUMMARY"})
    \/ handleBackToMenu
    \/ \E v \in FieldValues : setSummaryTopic(v)
    \/ handleSummarizeTopic
    \/ summarizeTopicDone
    \/ summarizeTopicFailed
    \/ TutorUser
    \/ TutorBackend

SpecBusy == Init /\ [][BusyNext]_vars

\* the quiz and the tutor, used at any moment
QuizNext ==
    \/ HomeOnce
    \/ Idle /\ MenuCard({"QUIZ_SYLLABUS"})
    \/ Idle /\ handleBackToMenu
    \/ Idle /\ handleGenerateQuiz
    \/ \E v \in {"", "a"} : setUserAnswer(v)
    \/ handleAnswerSubmit
    \/ handleProceedToNext
    \/ \E v \in BOOLEAN : setShowIncorrectList(v)
    \/ QuizBackend(Verdicts)
    \/ OpenTutor
    \/ CloseTutor
    \/ \E v \in {<<"h", "i">>} : setUserChatInput(v)
    \/ handleChatSend
    \/ TutorBackend

SpecQuiz == Init /\ [][QuizNext]_vars

\* the PDF chat screen, used at any moment
PdfNext ==
    \/ HomeOnce
    \/ MenuCard({"PDF_CHAT"})
    \/ handleBackToMenu
    \/ PdfUser
    \/ PdfBackend

SpecPdf == Init /\ [][PdfNext]_vars

\* the quiz alone, with every kind of verdict text
VerdictNext ==
    \/ Home
    \/ MenuCard({"QUIZ_SYLLABUS"})
    \/ handleBackToMenu
    \/ Idle /\ QuizUser
    \/ QuizBackend(AllVerdicts)

SpecVerdict == Init /\ [][VerdictNext]_vars

\* ------------------------------------------------ the parsers on their own
\* a response text of the model, before either parser has run on it
ParseInit ==
    /\ AppInit /\ ~pdfVariant
    /\ respText \in Texts
    /\ quizOut = NotRun
    /\ flashOut = NotRun

ParseQuiz ==
    /\ quizOut = NotRun
    /\ quizOut' = generateQuizQuestions(respText)
    /\ UNCHANGED <<respText, flashOut, appVars>>

ParseFlash ==
    /\ flashOut = NotRun
    /\ flashOut' = generateFlashcards(respText)
    /\ UNCHANGED <<respText, quizOut, appVars>>

ParseNext == ParseQuiz \/ ParseFlash

SpecParse == ParseInit /\ [][ParseNext]_vars

\* every handler that awaits a response, in either variant, used by a user
\* who fills each form once, waits for every response before the next click
\* and opens the tutor from the menu
EveryNext ==
    \/ HomeOnce
    \/ Idle /\ MenuCard(AppStates)
    \/ Idle /\ handleBackToMenu
    \/ Idle /\ handleGenerateQuiz
    \/ \E v \in {"a"} : setUserAnswer(v)
    \/ Idle /\ handleAnswerSubmit
    \/ QuizBackend({Chars("Correct.")})
    \/ \E v \in {"x"} : setSummaryTopic(v)
    \/ \E v \in {"x"} : setQuestionsToAnswer(v)
    \/ Idle /\ handleSummarizeTopic
    \/ Idle /\ handleGetAnswers
    \/ TextBackend
    \/ \E v \in {"x"} : setSyllabus(v)
    \/ \E v \in {"x"} : setStudyPlanGoal(v)
    \/ \E v \in {"x"} : setStudyPlanSyllabus(v)
    \/ \E v \in {"x"} : setStudyPlanTimeframe(v)
    \/ Idle /\ handleGenerateStudyPlan
    \/ Idle /\ handleGenerateQuestionPaper
    \/ PlanBackend
    \/ \E v \in {"x"} : setFlashcardTopic(v)
    \/ Idle /\ handleGenerateFlashcards
    \/ FlashBackend
    \/ \E f \in {"application/pdf"} : handlePdfUpload(f)
    \/ \E v \in {<<"h", "i">>} : setUserPdfChatInput(v)
    \/ Idle /\ handlePdfChatSend
    \/ PdfBackend
    \/ Idle /\ handleFindPdf
    \/ FinderBackend
    \/ Idle /\ appState = "MENU" /\ OpenTutor
    \/ Idle /\ CloseTutor
    \/ \E v \in {<<"h", "i">>} : setUserChatInput(v)
    \/ Idle /\ handleChatSend
    \/ TutorBackend
SpecEvery == Init /\ [][EveryNext]_vars

\* one quiz after another, taken by a user who answers every question and
\* presses Proceed whenever the reveal panel is shown, with a backend whose
\* evaluations all return
RunNext ==
    \/ Home
    \/ Idle /\ MenuCard({"QUIZ_SYLLABUS"})
    \/ Idle /\ handleBackToMenu
    \/ Idle /\ handleGenerateQuiz
    \/ generateQuizQuestionsDone
    \/ generateQuizQuestionsFailed
    \/ \E v \in {"a"} : setUserAnswer(v)
    \/ Idle /\ handleAnswerSubmit
    \/ evaluateAnswerDone(Verdicts)
    \/ handleProceedToNext
SpecRun ==
    /\ Init /\ [][RunNext]_vars
    /\ WF_vars(\E v \in {"a"} : setUserAnswer(v))
    /\ WF_vars(Idle /\ handleAnswerSubmit)
    /\ WF_vars(evaluateAnswerDone(Verdicts))
    /\ WF_vars(handleProceedToNext)

\* ============================================================ properties
\* ------------------------------------------------------------------- C1
\* C1: right after handleBackToMenu, from whichever screen it was invoked,
\* the screen is MENU and the activity results are back at their initial
\* values: no error, no generated content, no quiz questions or answers,
\* index and score 0, no flashcards, no syllabus; in the PDF variant also no
\* incorrect answers, reveal panel and incorrect list closed, no PDF file,
\* text, chat or chat history, no PDF links and no search recorded.
BackToMenuResets ==
    last.op = "handleBackToMenu" =>
        /\ appState = "MENU"
        /\ error = NoError
        /\ generatedContent = ""
        /\ quizQuestions = <<>> /\ userAnswers = <<>>
        /\ currentQuestionIndex = 0 /\ quizScore = 0
        /\ flashcards = ArrayOf(<<>>)
        /\ syllabus = ""
        /\ pdfVariant =>
            /\ incorrectAnswers = <<>>
            /\ ~showEvaluationResult /\ ~showIncorrectList
            /\ pdfFile = "null" /\ pdfText = "" /\ pdfChat = "null"
            /\ pdfChatHistory = <<>>
            /\ pdfLinks = <<>> /\ ~hasSearchedForPdf

\* the Back to Menu button of the results screen, after a quiz was played
BackFromQuizResults ==
    /\ last.op = "handleBackToMenu" /\ last.arg = "QUIZ_RESULTS"
    /\ pdfVariant /\ appState = "MENU"

\* ------------------------------------------------------------------- C2
\* C2: when a menu card has just opened an activity screen and no request
\* is in flight, nothing of an earlier visit shows on it: generatedContent
\* is empty, FLASHCARDS has no flashcards, PDF_FINDER lists no pdfLinks and,
\* in the PDF variant, ANSWERS has an empty incorrectQuestionsList and
\* showIncorrectQuestions false.
EnteredScreenIsClean ==
    (last.op = "navigateTo" /\ Idle) =>
        /\ generatedContent = ""
        /\ appState = "FLASHCARDS" => flashcards = ArrayOf(<<>>)
        /\ appState = "PDF_FINDER" => (pdfLinks = <<>> \/ ~hasSearchedForPdf)
        /\ (pdfVariant /\ appState = "ANSWERS") =>
              (incorrectQuestionsList = <<>> /\ ~showIncorrectQuestions)

\* ------------------------------------------------------------------- C3
ContentScreens == {"SUMMARY", "ANSWERS", "QUESTION_PAPER", "STUDY_PLAN"}

\* C3: non-empty generatedContent on a content screen was produced by a
\* request started on that screen during the current visit, never by one
\* whose screen the user had left before the response arrived.
ShownContentIsCurrent ==
    (appState \in ContentScreens /\ generatedContent # "") => ~contentStale

\* ------------------------------------------------------------------- C4
\* the quiz advanced by one step from the question shown
Advanced ==
    IF currentQuestionIndex < Len(quizQuestions) - 1
    THEN currentQuestionIndex' = currentQuestionIndex + 1 /\ appState' = appState
    ELSE currentQuestionIndex' = currentQuestionIndex /\ appState' = "QUIZ_RESULTS"

QuotaFailureShowsAdvisory ==
    (last.arg = "failed" /\ last.got = ResourceExhausted) => error = QuotaAdvisory

\* ------------------------------------------------------------------- C6
GenerationKinds ==
    {"researchTextbook", "isLanguageTextbook", "generateQuizQuestions",
     "generateFlashcards", "summarizeTopic", "getAnswers",
     "generateQuestionPaper", "generateStudyPlan"}

GenerationsInFlight ==
    LET S == {r \in BagToSet(pending) : r.kind \in GenerationKinds} IN
    BagCardinality([r \in S |-> CopiesIn(r, pending)])

\* C6: at most one isLoading-guarded generation request is in flight at
\* any time, whatever the tutor chat does meanwhile.
OneGenerationAtATime == GenerationsInFlight <= 1

\* ------------------------------------------------------------------- C7
\* C7: during a quiz, quizScore plus the number of incorrectAnswers is the
\* number of evaluations completed without error since the quiz was
\* generated, and neither exceeds the number of questions.
QuizTally ==
    appState \in {"QUIZ", "QUIZ_RESULTS"} =>
        /\ quizScore + Len(incorrectAnswers) = evalsDone
        /\ 0 <= quizScore /\ quizScore <= Len(quizQuestions)
        /\ Len(incorrectAnswers) <= Len(quizQuestions)

\* ------------------------------------------------------------------- C8
\* the verdict begins with the letters of correct, in either case
BeginsWithCorrect(v) ==
    /\ Len(v) >= 7
    /\ v[1] \in {"c", "C"} /\ v[2] \in {"o", "O"} /\ v[3] \in {"r", "R"}
    /\ v[4] \in {"r", "R"} /\ v[5] \in {"e", "E"} /\ v[6] \in {"c", "C"}
    /\ v[7] \in {"t", "T"}

\* C8: an evaluated answer adds to the score iff its verdict begins, in
\* either case, with correct; every other verdict is appended to
\* incorrectAnswers with the whole verdict as its explanation; each
\* evaluation does exactly one of the two.
VerdictByPrefix ==
    [][(last'.op = "evaluateAnswer" /\ last'.arg # "sent" /\ last'.arg # "failed") =>
        IF BeginsWithCorrect(last'.got)
        THEN quizScore' = quizScore + 1 /\ incorrectAnswers' = incorrectAnswers
        ELSE /\ quizScore' = quizScore
             /\ Len(incorrectAnswers') = Len(incorrectAnswers) + 1
             /\ SubSeq(incorrectAnswers', 1, Len(incorrectAnswers)) = incorrectAnswers
             /\ incorrectAnswers'[Len(incorrectAnswers')].correctAnswerExplanation
                    = last'.got
    ]_vars

\* a verdict with leading whitespace was logged after one that scored
LeadingSpaceLogged ==
    /\ last.op = "evaluateAnswer" /\ last.got = Chars(" Correct")
    /\ quizScore = 1 /\ Len(incorrectAnswers) = 1

\* ------------------------------------------------------------------- C9
\* the text inside the json fence when there is one, else the whole text
FencedText(lines) ==
    LET m == FenceMatch(lines) IN
    IF m = <<0, 0>> THEN Flatten(lines)
    ELSE Flatten(SubSeq(lines, m[1] + 1, m[2] - 1))

IsJsonObject(t) == JsonParses(t) /\ JsonValue(t)[1] = "{"
NumberedLines(lines) == ArrayOf(SelectSeq(lines, NumberedLine))
IsFalsy(v) == Len(v) = 1 /\ v[1] \in Falsy

\* C9 as stated: a text that parses as a JSON object gives the object's
\* questions value, or an empty list when the key is missing; a text that
\* does not parse gives its numbered lines, in order.
QuizParseAsStated ==
    quizOut # NotRun =>
        LET t == FencedText(respText)
            v == Property(JsonValue(t), "'questions'")
        IN IF IsJsonObject(t)
           THEN quizOut = IF v = Undefined THEN ArrayOf(<<>>) ELSE AsResult(v)
           ELSE ~JsonParses(t) => quizOut = NumberedLines(respText)

\* C9: a text that parses as a JSON object gives the object's questions
\* value when that value is truthy, and an empty list when the key is
\* missing or its value is falsy; a text that does not parse gives its
\* numbered lines, in order; JSON that is not an object gives an empty list,
\* except null, which gives the numbered lines.
QuizParse ==
    quizOut # NotRun =>
        LET t == FencedText(respText)
            v == Property(JsonValue(t), "'questions'")
        IN IF IsJsonObject(t)
           THEN quizOut = IF v = Undefined \/ IsFalsy(v) THEN ArrayOf(<<>>)
                          ELSE AsResult(v)
           ELSE IF ~JsonParses(t) \/ JsonValue(t) = <<"null">>
                THEN quizOut = NumberedLines(respText)
                ELSE quizOut = ArrayOf(<<>>)

\* prose around two numbered lines came back as the two lines
FellBackToNumberedLines ==
    /\ Len(respText) = 3 /\ ~JsonParses(FencedText(respText))
    /\ quizOut = ArrayOf(<<<<"1", ".", Space, "What">>, <<"1", "2", ".", Space, "Why">>>>)

\* ------------------------------------------------------------------ C10
\* C10: generateFlashcards gives the flashcards array when the text is
\* valid JSON with that key, and an empty list in every other case.
FlashParseGivesList ==
    flashOut # NotRun =>
        LET t == FencedText(respText)
            v == Property(JsonValue(t), "'flashcards'")
        IN IF IsJsonObject(t) /\ v # Undefined /\ v[1] = "["
           THEN flashOut = AsResult(v)
           ELSE flashOut = ArrayOf(<<>>)

\* ------------------------------------------------------------------ C11
\* the fields a step can show to the user or act on later, the name aside
HomeOutcome == <<navVars, isLanguageBook, busyVars, error, pending>>

\* C11: the app leaves HOME only for MENU, and only in the step in which
\* isLanguageTextbook returns, which is awaited only after researchTextbook
\* answered yes; submitting a name made of spaces only (or empty) changes
\* nothing and sends nothing; an answer that is not a yes leaves HOME shown
\* with the not-found error and isLoading false; a failed call leaves HOME
\* shown with an error and isLoading false.
HomeToMenu ==
    [][/\ (appState = "HOME" /\ appState' # "HOME") =>
            /\ appState' = "MENU"
            /\ last'.op = "isLanguageTextbook"
            /\ Awaiting("isLanguageTextbook") # {}
            /\ textbookName' = textbookName
            /\ \E i \in 1..Len(textbookName) : textbookName[i] # Space
       /\ (Awaiting("isLanguageTextbook")' # {} /\ Awaiting("isLanguageTextbook") = {}) =>
            (last'.op = "researchTextbook" /\ last'.got = Yes)
       /\ (last'.op = "handleTextbookSubmit" /\ last'.arg # "failed"
             /\ \A i \in 1..Len(textbookName) : textbookName[i] = Space) =>
            UNCHANGED <<HomeOutcome, textbookName>>
       /\ (last'.op = "researchTextbook" /\ last'.got = No) =>
            (appState' = "HOME" /\ error' = NotFoundError /\ ~isLoading')
       /\ (last'.op = "handleTextbookSubmit" /\ last'.arg = "failed") =>
            (appState' = "HOME" /\ error' \in {QuotaAdvisory, GenericError}
             /\ ~isLoading')
      ]_vars

\* the menu was reached for a name typed with a leading space, found to be
\* a language textbook
MenuAfterSpacedName ==
    /\ appState = "MENU" /\ last.op = "isLanguageTextbook"
    /\ textbookName = <<Space, "B">> /\ isLanguageBook /\ error = NoError

\* ------------------------------------------------------------------ C12
\* the busy flag that the handler of an operation sets while it waits
BusyFlagOf(op) ==
    CASE op = "evaluateAnswer" -> isSubmittingAnswer
      [] op = "sendMessage" -> isTutorLoading
      [] op = "pdfSendMessage" -> isPdfChatLoading
      [] op = "getDocument" -> isParsingPdf
      [] OTHER -> isLoading
\* some response is still awaited by a handler that set the given flag
Waited(ops) == \E r \in BagToSet(pending) : r.kind \in ops

\* C12: the step in which a handler learns that its call failed ends with
\* the banner set to the quota advisory or to the generic message and with
\* that handler's busy flag false; and no busy flag is ever true while no
\* request of a handler that sets it is awaited.
FailureSettles ==
    /\ [][last'.arg = "failed" =>
            /\ error' \in {QuotaAdvisory, GenericError}
            /\ ~BusyFlagOf(last.op)']_vars
    /\ [](/\ isSubmittingAnswer => Waited({"evaluateAnswer"})
          /\ isTutorLoading => Waited({"sendMessage"})
          /\ isPdfChatLoading => Waited({"pdfSendMessage"})
          /\ isParsingPdf => Waited({"getDocument"})
          /\ isLoading =>
                Waited({"researchTextbook", "isLanguageTextbook",
                        "generateStudyPlan", "summarizeTopic", "getAnswers",
                        "generateQuestionPaper", "generateFlashcards",
                        "generateQuizQuestions", "findPdfOnline"}))

\* a tutor message failed with a quota error in the variant whose
\* handleError resets isLoading only
TutorFailedWithQuota ==
    /\ last.op = "sendMessage" /\ last.arg = "failed"
    /\ last.got = ResourceExhausted
    /\ error = QuotaAdvisory /\ ~isTutorLoading
    /\ appState = "AI_TUTOR" /\ ~pdfVariant

\* ------------------------------------------------------------------ C13
\* C13: right after a screen change made by the user (a menu card, the
\* tutor button, the tutor's Close button, Back to Menu) no error is set.
ArrivesWithoutError ==
    last.op \in {"navigateTo", "closeTutor", "handleBackToMenu"} =>
        error = NoError

\* ------------------------------------------------------------------ C14
\* the members of the variant's AppState enumeration
EnumMembers ==
    IF pdfVariant THEN AppStates ELSE AppStates \ {"PDF_CHAT", "PDF_FINDER"}

\* C14: in every reachable state appState (and the screen the tutor returns
\* to) is one member of the variant's AppState enumeration, and renderState
\* returns the panel of that member and of no other.
ExactlyOneScreen ==
    /\ appState \in EnumMembers
    /\ previousAppState \in EnumMembers
    /\ {s \in AppStates \cup {"default"} : renderState = s} = {appState}

\* the PDF finder's panel after a search that found a link
FinderPanelShown ==
    /\ appState = "PDF_FINDER" /\ renderState = "PDF_FINDER"
    /\ hasSearchedForPdf /\ pdfLinks # <<>>

\* ------------------------------------------------------------------ C15
\* C15: when the continuation of a request changes the screen, the request
\* was issued during the current visit of the current screen; so a quiz
\* generation that completes after the user has left QUIZ_SYLLABUS moves
\* the user nowhere.
ScreenChangesAreLocal ==
    [][(appState' # appState
        /\ last'.op \in {"generateQuizQuestions", "evaluateAnswer", "isLanguageTextbook"})
       => \E r \in Awaiting(last'.op) : ~r.stale]_vars

\* ------------------------------------------------------------------ C16
\* C16: while QUIZ is the active screen there is at least one question, the
\* index points at one of them, and there is one answer slot per question.
QuizInRange ==
    appState = "QUIZ" =>
        /\ Len(quizQuestions) > 0
        /\ 0 <= currentQuestionIndex
        /\ currentQuestionIndex < Len(quizQuestions)
        /\ Len(userAnswers) = Len(quizQuestions)

\* ------------------------------------------------------------------ C17
EvaluationsInFlight ==
    LET S == Awaiting("evaluateAnswer") IN
    BagCardinality([r \in S |-> CopiesIn(r, pending)])

\* C17: in the PDF variant isSubmittingAnswer is true for as long as an
\* evaluation is in flight, so at most one evaluation is in flight.
OneEvaluationAtATime ==
    pdfVariant =>
        /\ EvaluationsInFlight > 0 => isSubmittingAnswer
        /\ EvaluationsInFlight <= 1

\* ------------------------------------------------------------------ C18
\* C18: a step that brings up QUIZ_RESULTS (other than closing the tutor
\* that was opened from it) is the evaluation of a request made for the last
\* question, or, in the PDF variant, Proceed pressed on the last question's
\* reveal panel; after it every question has exactly one verdict.
ResultsAfterLastQuestion ==
    [][(appState' = "QUIZ_RESULTS" /\ appState # "QUIZ_RESULTS"
        /\ last'.op # "closeTutor") =>
          /\ \/ /\ last'.op = "evaluateAnswer" /\ last'.arg # "failed"
                /\ \E r \in Awaiting("evaluateAnswer") :
                      r.idx = Len(quizQuestions) - 1
                /\ pdfVariant => last'.arg = "correct"
             \/ /\ last'.op = "handleProceedToNext" /\ pdfVariant
                /\ currentQuestionIndex = Len(quizQuestions) - 1
          /\ Len(quizQuestions') > 0
          /\ quizScore' + Len(incorrectAnswers') = Len(quizQuestions')]_vars

QuizOpensNonEmpty ==
    [][(last'.op = "generateQuizQuestions" /\ last'.arg # "sent") =>
          /\ appState' \in {"QUIZ", "QUIZ_SYLLABUS"}
          /\ last'.arg = "failed" =>
                (appState' = "QUIZ_SYLLABUS" /\ error' \in {QuotaAdvisory, GenericError})
          /\ (last'.arg # "failed" /\ Len(quizQuestions') = 0) =>
                (appState' = "QUIZ_SYLLABUS" /\ error' = NoQuizError)
          /\ (last'.arg # "failed" /\ Len(quizQuestions') > 0) => appState' = "QUIZ"
          /\ last'.got = Flatten(<<QuizObject>>) =>
                quizQuestions' = <<<<"'Q1'">>, <<"'Q2'">>>>
          /\ last'.got = Flatten(<<FlashObject>>) => quizQuestions' = <<>>
          /\ appState' = "QUIZ" =>
                /\ quizScore' = 0 /\ currentQuestionIndex' = 0
                /\ incorrectAnswers' = <<>>
                /\ Len(userAnswers') = Len(quizQuestions')
                /\ \A i \in 1..Len(userAnswers') : userAnswers'[i] = ""
      ]_vars

\* a response whose 'questions' is a number left the user on the topic form
\* with the could-not-generate error
NumberIsNoQuiz ==
    /\ last.op = "generateQuizQuestions" /\ last.arg = "empty"
    /\ last.got = <<"{", "'questions'", ":", "1", "2", "}">>
    /\ appState = "QUIZ_SYLLABUS" /\ error = NoQuizError /\ quizQuestions = <<>>

\* ------------------------------------------------------------------ C22
\* C22: the tutor's chat history is empty on every screen other than the
\* tutor's, and is empty right after the tutor has been opened.
TutorHistoryOnlyInSession ==
    /\ appState # "AI_TUTOR" => chatHistory = <<>>
    /\ (last.op = "navigateTo" /\ last.arg = "AI_TUTOR") => chatHistory = <<>>

\* ------------------------------------------------------------------ C23
TutorSendsInFlight ==
    LET S == Awaiting("sendMessage") IN
    BagCardinality([r \in S |-> CopiesIn(r, pending)])

\* C23: in the PDF variant no user entry of the tutor's history directly
\* follows another user entry, and at most one tutor message awaits its
\* reply.
TutorTurnsAlternate ==
    pdfVariant =>
        /\ \A i \in 1..(Len(chatHistory) - 1) :
              ~(chatHistory[i].role = "user" /\ chatHistory[i + 1].role = "user")
        /\ TutorSendsInFlight <= 1

\* ------------------------------------------------------------------ C24
\* C24: a PDF chat message is sent without the document only when the
\* history of the session holds a reply, that is, when an earlier message
\* of the session, the first of which carried the document, was answered.
BareQuestionAfterDocument ==
    (last.op = "handlePdfChatSend" /\ last.arg = "next") =>
        \E i \in 1..Len(pdfChatHistory) : pdfChatHistory[i] = ModelMessage("reply")

\* ------------------------------------------------------------------ C25
\* what belongs to the activities: quiz progress, flashcards, input fields,
\* answers, PDF chat and finder results, busy flags and the error
ActivityState ==
    <<quizQuestions, currentQuestionIndex, userAnswers, quizScore,
      incorrectAnswers, showEvaluationResult, showIncorrectList, flashcards,
      inputVars, answersVars, pdfChatVars, finderVars, busyVars, error,
      homeVars>>

RevealBelongsToCurrent ==
    (pdfVariant /\ appState = "QUIZ" /\ showEvaluationResult) =>
        /\ currentQuestionIndex < Len(quizQuestions)
        /\ incorrectAnswers # <<>>
        /\ incorrectAnswers[Len(incorrectAnswers)].question =
              quizQuestions[currentQuestionIndex + 1]

\* ------------------------------------------------------------------ C27
\* C27: a rejected upload (no file, or a file that is not a PDF) sets the
\* error 'Please upload a valid PDF file.' and leaves pdfFile, pdfText,
\* pdfChat, pdfChatHistory and isParsingPdf unchanged; when the handler of
\* an accepted file ends, isParsingPdf is false, and when it ends in
\* failure pdfText is empty and an error is set.
UploadOutcome ==
    [][/\ (last'.op = "handlePdfUpload" /\ last'.arg = "rejected") =>
            /\ error' = InvalidPdfError
            /\ UNCHANGED <<pdfFile, pdfText, pdfChat, pdfChatHistory, isParsingPdf>>
       /\ last'.op = "getDocument" => ~isParsingPdf'
       /\ (last'.op = "getDocument" /\ last'.arg = "failed") =>
            pdfText' = "" /\ error' # NoError]_vars

\* ------------------------------------------------------------------ C28
\* the paragraph "Sorry, I couldn't find any publicly available PDFs" of
\* the PDF_FINDER panel is drawn
SorryShown ==
    /\ pdfVariant /\ appState = "PDF_FINDER"
    /\ ~isLoading /\ hasSearchedForPdf /\ pdfLinks = <<>>

\* C28: on PDF_FINDER the message that no PDF was found is not shown when
\* the search has just failed; it is shown only after a search that
\* returned an empty list.
SorryOnlyAfterEmptySearch ==
    (last.op = "findPdfOnline" /\ last.arg = "failed") => ~SorryShown

\* ------------------------------------------------------------------ C29
\* handleTextbookSubmit is awaiting one of its two calls
Verifying ==
    Awaiting("researchTextbook") \cup Awaiting("isLanguageTextbook") # {}

\* C29: once HOME has been left it is never shown again and textbookName
\* and isLanguageBook never change; the name does not change either while
\* handleTextbookSubmit is verifying it, so the name every later request
\* reads is the verified one, and it is not blank.
TextbookFixedAfterHome ==
    /\ [][/\ appState # "HOME" =>
              /\ appState' # "HOME"
              /\ UNCHANGED <<textbookName, isLanguageBook>>
          /\ Verifying => UNCHANGED textbookName]_vars
    /\ [](appState # "HOME" => trim(textbookName) # <<>> /\ ~Verifying)

\* a summary was requested for a textbook whose name was typed with a
\* leading space, after a visit to the tutor
SummaryForSpacedName ==
    /\ last.op = "summarizeTopic" /\ last.arg = "sent"
    /\ textbookName = <<Space, "B">> /\ previousAppState = "SUMMARY"

\* ------------------------------------------------------------------ C30
\* C30: handleChatSend called with an empty or whitespace-only input, or
\* with no chat session, sends nothing and changes no state (chatHistory,
\* userChatInput, isTutorLoading, error and everything else stay as they
\* are); and a chat session exists only while AI_TUTOR is shown.
BlankSendChangesNothing ==
    /\ [][(/\ last'.op = "handleChatSend"
            /\ (trim(userChatInput) = <<>> \/ chat = "null")) =>
              UNCHANGED <<chatHistory, userChatInput, busyVars, error, pending,
                          chat, navVars, contentVars, inputVars, quizVars>>]_vars
    /\ [](chat # "null" => appState = "AI_TUTOR")

\* Send was pressed in a tutor session with only a space typed
SpaceSentToTutor ==
    /\ last.op = "handleChatSend" /\ last.arg = "nothing"
    /\ userChatInput = <<Space>> /\ chat = "session" /\ appState = "AI_TUTOR"

\* ------------------------------------------------------------------ C31
\* C31: GRAMMAR_OPTIONS is never the screen shown nor the screen the tutor
\* would return to, whatever the user does and whichever requests complete,
\* so renderState never returns from its default branch.
GrammarOptionsUnreachable ==
    /\ appState # "GRAMMAR_OPTIONS"
    /\ previousAppState # "GRAMMAR_OPTIONS"
    /\ renderState # "default"

\* the last verdict of a quiz has just moved the app to the results panel
ResultsPanelRendered ==
    /\ last.op = "evaluateAnswer"
    /\ appState = "QUIZ_RESULTS" /\ renderState = "QUIZ_RESULTS"

====
